---- MODULE Spec2Model ----
(***************************************************************************)
(* A model of the CRM GraphQL backend: the mutations of crm/schema.py over *)
(* the tables of crm/models.py, and the reminder job of                    *)
(* crm/cron_jobs/send_order_reminders.py.                                  *)
(*                                                                         *)
(* The store is a relational database reached through the Django ORM in    *)
(* autocommit mode: a statement outside transaction.atomic() commits at    *)
(* once, statements inside it commit or roll back together when the block  *)
(* exits, and a reader sees committed rows plus the uncommitted rows of    *)
(* its own transaction (READ COMMITTED).  Requests are served              *)
(* concurrently, one process per request in flight.                        *)
(***************************************************************************)
EXTENDS Integers, Sequences, FiniteSets, TLC

VARIABLES
    customers,     \* committed rows of the Customer table
    customerSeq,   \* next id of the Customer table
    products,      \* committed rows of the Product table
    productSeq,    \* next id of the Product table
    orders,        \* committed rows of the Order table, each with its join rows
    orderSeq,      \* next id of the Order table
    pc,            \* per request process: where its handler stands
    arg,           \* per request process: the input of the mutation in flight
    bulk,          \* per request process: the locals of BulkCreateCustomers.mutate
    resp,          \* the response the last step returned to its caller, if any
    now,           \* the clock, in days
    log,           \* /tmp/order_reminders_log.txt, a sequence of lines
    lastRun        \* what the last run of the reminder job did

vars == <<customers, customerSeq, products, productSeq, orders, orderSeq,
          pc, arg, bulk, resp, now, log, lastRun>>

storeVars == <<customers, customerSeq, products, productSeq, orders, orderSeq>>
jobVars == <<now, log, lastRun>>

(***************************************************************************)
(* Bounds of the model.                                                    *)
(***************************************************************************)
MaxBatch == 3          \* longest bulkCreateCustomers input
MaxCustomerId == 2     \* no request starts once the Customer ids pass this
MaxProducts == 2       \* createProduct requests accepted
MaxOrders == 2         \* createOrder requests accepted
MaxIds == 2            \* longest productIds list
MaxDay == 10           \* the clock stops here

Procs == {1, 2}

(***************************************************************************)
(* Nullable values: None is the empty set, Some(x) the singleton.          *)
(***************************************************************************)
None == {}
Some(x) == {x}

RECURSIVE SeqSet(_)
SeqSet(s) == IF s = <<>> THEN {} ELSE {Head(s)} \cup SeqSet(Tail(s))

(***************************************************************************)
(* Phone numbers are sequences of characters.                              *)
(***************************************************************************)
Digit == {"0", "1", "2", "3", "4", "5", "6", "7", "8", "9"}

AllDigits(s) == \A i \in 1..Len(s) : s[i] \in Digit

\* ^\+?1?\d{9,15}$ : an optional "+", an optional "1", then 9 to 15 digits.
MatchIntl(s) ==
    \E a \in 0..1 : \E b \in 0..1 :
        /\ a + b <= Len(s)
        /\ a = 1 => s[1] = "+"
        /\ b = 1 => s[a + 1] = "1"
        /\ LET rest == SubSeq(s, a + b + 1, Len(s))
           IN  AllDigits(rest) /\ Len(rest) >= 9 /\ Len(rest) <= 15

\* ^\d{3}-\d{3}-\d{4}$
MatchDashed(s) ==
    /\ Len(s) = 12
    /\ \A i \in 1..12 : IF i \in {4, 8} THEN s[i] = "-" ELSE s[i] \in Digit

validate_phone(phone) ==
    IF phone = <<>> THEN TRUE ELSE MatchIntl(phone) \/ MatchDashed(phone)

(***************************************************************************)
(* The Customer table and the checks of the customer mutations.            *)
(***************************************************************************)
EmailsOf(rows) == {r.email : r \in rows}

\* Customer.objects.filter(email=email).exists(), negated: an exact match.
validate_email_unique(rows, email) == ~ \E r \in rows : r.email = email

\* A table without the unique index on Customer.email.
UniqueViolationNever(rows, email) == FALSE

\* email = models.EmailField(unique=True): the index refuses a second row.
UniqueViolation(rows, email) == email \in EmailsOf(rows)

\* The two checks in the other order.
CustomerChecksPhoneFirst(rows, in) ==
    IF in.phone # <<>> /\ ~validate_phone(in.phone) THEN "InvalidPhone"
    ELSE IF ~validate_email_unique(rows, in.email) THEN "EmailExists"
    ELSE "ok"

\* The checks of CreateCustomer.mutate, in the order of the code.
CustomerChecks(rows, in) ==
    IF ~validate_email_unique(rows, in.email) THEN "EmailExists"
    ELSE IF in.phone # <<>> /\ ~validate_phone(in.phone) THEN "InvalidPhone"
    ELSE "ok"

\* The same two checks as BulkCreateCustomers.mutate writes them per item.
BulkItemChecks(rows, in) ==
    IF ~validate_email_unique(rows, in.email) THEN "EmailExists"
    ELSE IF in.phone # <<>> /\ ~validate_phone(in.phone) THEN "InvalidPhone"
    ELSE "ok"

\* Customer.objects.create(...): the row, or the exception the index raises.
InsertCustomer(rows, id, in) ==
    IF UniqueViolation(rows, in.email)
    THEN [raised |-> Some("IntegrityError"), row |-> None]
    ELSE [raised |-> None,
          row |-> Some([id |-> id, name |-> in.name, email |-> in.email,
                        phone |-> in.phone])]

(***************************************************************************)
(* Responses of the single-entity mutations.  propagated says whether the  *)
(* failure left the handler as an exception instead of a response.         *)
(***************************************************************************)
NoResp == [op |-> "none"]
NoArg == [op |-> "none"]
NoBulk == [items |-> <<>>, customers |-> <<>>, errors |-> <<>>,
           needs_rollback |-> FALSE, verdicts |-> <<>>]

Response(p, op, in, success, message, entity, msgArg) ==
    [proc |-> p, op |-> op, request |-> in, success |-> success, message |-> message,
     entity |-> entity, msgArg |-> msgArg, propagated |-> FALSE]

ErrorPrefix(op) ==
    CASE op = "createCustomer" -> "Error creating customer: "
      [] op = "createProduct" -> "Error creating product: "
      [] op = "createOrder" -> "Error creating order: "

\* A handler without its except clause: the exception reaches the caller.
CatchNothing(p, op, in, exc) ==
    [proc |-> p, op |-> op, request |-> in, success |-> FALSE, message |-> "",
     entity |-> None, msgArg |-> Some(exc), propagated |-> TRUE]

\* except Exception as e: return <Mutation>(success=False, message=f"Error ...: {str(e)}")
Catch(p, op, in, exc) == Response(p, op, in, FALSE, ErrorPrefix(op), None, Some(exc))

(***************************************************************************)
(* Transactions.  The rows a bulk request has inserted stay uncommitted    *)
(* until its atomic block exits.                                           *)
(***************************************************************************)
InBulk(p) == pc[p] \in {"bulk_loop", "bulk_insert"}

TxRows(p) == IF InBulk(p) THEN SeqSet(bulk[p].customers) ELSE {}

Visible(p) == customers \cup TxRows(p)

OthersTxRows(p) == UNION {TxRows(q) : q \in Procs \ {p}}

\* An insert of a key another open transaction has inserted waits for that
\* transaction to end.
InsertWaits(p, email) == UniqueViolation(OthersTxRows(p), email)

(***************************************************************************)
(* createCustomer: CreateCustomer.mutate, in two steps (the query of the   *)
(* uniqueness check, then the insert), each a statement of its own.        *)
(***************************************************************************)
CreateCustomerCheck(p, in) ==
    /\ pc[p] = "idle"
    /\ customerSeq <= MaxCustomerId
    /\ LET v == CustomerChecks(Visible(p), in)
       IN  CASE v = "EmailExists" ->
                  /\ resp' = Response(p, "createCustomer", in, FALSE,
                                   "Email already exists", None, None)
                  /\ UNCHANGED <<pc, arg>>
             [] v = "InvalidPhone" ->
                  /\ resp' = Response(p, "createCustomer", in, FALSE,
                          "Invalid phone format. Use +1234567890 or 123-456-7890",
                          None, None)
                  /\ UNCHANGED <<pc, arg>>
             [] v = "ok" ->
                  /\ pc' = [pc EXCEPT ![p] = "cc_insert"]
                  /\ arg' = [arg EXCEPT ![p] = in]
                  /\ resp' = NoResp
    /\ UNCHANGED <<storeVars, bulk, jobVars>>

CreateCustomerInsert(p) ==
    /\ pc[p] = "cc_insert"
    /\ ~InsertWaits(p, arg[p].email)
    /\ LET r == InsertCustomer(customers, customerSeq, arg[p])
       IN  IF r.raised # None
           THEN /\ resp' = Catch(p, "createCustomer", arg[p],
                                   CHOOSE e \in r.raised : TRUE)
                /\ UNCHANGED <<customers, customerSeq>>
           ELSE /\ customers' = customers \cup r.row
                /\ customerSeq' = customerSeq + 1
                /\ resp' = Response(p, "createCustomer", arg[p], TRUE,
                                      "Customer created successfully", r.row, None)
    /\ pc' = [pc EXCEPT ![p] = "idle"]
    /\ arg' = [arg EXCEPT ![p] = NoArg]
    /\ UNCHANGED <<products, productSeq, orders, orderSeq, bulk, jobVars>>

(***************************************************************************)
(* bulkCreateCustomers: BulkCreateCustomers.mutate.  One transaction       *)
(* around the loop; per item the checks and then the insert, each item in  *)
(* a try of its own.  The loop reads the input list item by item, and no   *)
(* step depends on the items still to come: the model chooses each item    *)
(* when the loop reaches it and ends the list at any length up to          *)
(* MaxBatch, which gives the runs of choosing the whole list at the call.  *)
(* items holds the items read so far; verdicts keeps, per item, what the   *)
(* two checks say of the store the request sees at that item's turn.       *)
(***************************************************************************)
ErrorEntry(i, text, email) == [pos |-> i, text |-> text, email |-> email]

\* customers = []; errors = []; with transaction.atomic():
BulkBegin(p) ==
    /\ pc[p] = "idle"
    /\ customerSeq <= MaxCustomerId
    /\ pc' = [pc EXCEPT ![p] = "bulk_loop"]
    /\ arg' = [arg EXCEPT ![p] = [op |-> "bulkCreateCustomers"]]
    /\ bulk' = [bulk EXCEPT ![p] = NoBulk]
    /\ resp' = NoResp
    /\ UNCHANGED <<storeVars, jobVars>>

\* for i, customer_data in enumerate(input): the queries of the next item.
\* Once an insert has failed inside the atomic block the connection
\* refuses every further query of the block with
\* TransactionManagementError, which the item's except clause collects.
BulkCheck(p, item) ==
    /\ pc[p] = "bulk_loop"
    /\ Len(bulk[p].items) < MaxBatch
    /\ LET b == bulk[p]
           i == Len(b.items) + 1
           v == BulkItemChecks(Visible(p), item)
           seen == [b EXCEPT !.items = Append(@, item), !.verdicts = Append(@, v)]
           failed(text) ==
               [seen EXCEPT !.errors = Append(@, ErrorEntry(i, text, item.email))]
       IN  IF b.needs_rollback
           THEN /\ bulk' = [bulk EXCEPT ![p] = failed("TransactionManagementError")]
                /\ UNCHANGED pc
           ELSE CASE v = "EmailExists" ->
                       /\ bulk' = [bulk EXCEPT ![p] = failed("Email already exists")]
                       /\ UNCHANGED pc
                  [] v = "InvalidPhone" ->
                       /\ bulk' = [bulk EXCEPT ![p] = failed("Invalid phone format")]
                       /\ UNCHANGED pc
                  [] v = "ok" ->
                       /\ bulk' = [bulk EXCEPT ![p] = seen]
                       /\ pc' = [pc EXCEPT ![p] = "bulk_insert"]
    /\ resp' = NoResp
    /\ UNCHANGED <<storeVars, arg, jobVars>>

\* Customer.objects.create(...) of the item just checked, and its except
\* clause.  An exception raised by the insert marks the transaction for
\* rollback.
BulkInsert(p) ==
    /\ pc[p] = "bulk_insert"
    /\ LET b == bulk[p]
           i == Len(b.items)
           item == b.items[i]
           r == InsertCustomer(Visible(p), customerSeq, item)
       IN  /\ ~InsertWaits(p, item.email)
           /\ IF r.raised # None
              THEN /\ bulk' = [bulk EXCEPT ![p] =
                          [b EXCEPT !.errors = Append(@,
                                        ErrorEntry(i, CHOOSE e \in r.raised : TRUE,
                                                   item.email)),
                                    !.needs_rollback = TRUE]]
                   /\ UNCHANGED customerSeq
              ELSE /\ bulk' = [bulk EXCEPT ![p] =
                          [b EXCEPT !.customers = Append(@, CHOOSE x \in r.row : TRUE)]]
                   /\ customerSeq' = customerSeq + 1
    /\ pc' = [pc EXCEPT ![p] = "bulk_loop"]
    /\ resp' = NoResp
    /\ UNCHANGED <<customers, products, productSeq, orders, orderSeq, arg, jobVars>>

\* The end of the list: the exit of the atomic block (commit, or rollback
\* when the transaction is marked), and the return of the response.
BulkExit(p) ==
    /\ pc[p] = "bulk_loop"
    /\ LET b == bulk[p]
       IN  /\ customers' = IF b.needs_rollback THEN customers
                           ELSE customers \cup SeqSet(b.customers)
           /\ resp' =
                  [proc |-> p, op |-> "bulkCreateCustomers", request |-> b.items,
                   customers |-> b.customers, errors |-> b.errors,
                   success |-> Len(b.customers) > 0,
                   verdicts |-> b.verdicts, propagated |-> FALSE]
    /\ pc' = [pc EXCEPT ![p] = "idle"]
    /\ arg' = [arg EXCEPT ![p] = NoArg]
    /\ bulk' = [bulk EXCEPT ![p] = NoBulk]
    /\ UNCHANGED <<customerSeq, products, productSeq, orders, orderSeq, jobVars>>

(***************************************************************************)
(* Decimals.  DecimalField(max_digits=10, decimal_places=2) stores at most *)
(* 99999999.99.  A decimal is written as a number of such maxima plus a    *)
(* small rest, so that sums past the maximum stay small numbers:           *)
(* an input [maxes, mills] is maxes * 99999999.99 +                        *)
(* mills / 1000, a stored value [maxes, cents] is maxes * 99999999.99 +    *)
(* cents / 100.  The rest is always far below the maximum.                 *)
(***************************************************************************)
Dec(maxes, cents) == [maxes |-> maxes, cents |-> cents]

DecZero == Dec(0, 0)

DecAdd(a, b) == Dec(a.maxes + b.maxes, a.cents + b.cents)

DecPositive(d) == d.maxes > 0 \/ (d.maxes = 0 /\ d.cents > 0)

\* input.price <= 0, on the input as given (in thousandths).
InputNotPositive(price) == price.maxes = 0 /\ price.mills <= 0

\* The value the column stores: quantized to two places, half to even.
\* The parity of the last stored digit is that of maxes + cents, the
\* maximum ending in 9.
Quantize(price) ==
    LET q == price.mills \div 10
        r == price.mills % 10
        up == \/ r > 5
              \/ r = 5 /\ (price.maxes + q) % 2 = 1
    IN  Dec(price.maxes, IF up THEN q + 1 ELSE q)

\* More than max_digits digits: the save raises decimal.InvalidOperation.
DecOverflow(d) == d.maxes >= 2 \/ (d.maxes = 1 /\ d.cents > 0)

RECURSIVE SumPrices(_)
SumPrices(rows) ==
    IF rows = {} THEN DecZero
    ELSE LET r == CHOOSE x \in rows : TRUE
         IN  DecAdd(r.price, SumPrices(rows \ {r}))

RECURSIVE SumDecs(_)
SumDecs(ds) ==
    IF ds = {} THEN DecZero
    ELSE LET d == CHOOSE x \in ds : TRUE
         IN  DecAdd(d, SumDecs(ds \ {d}))

\* A total that counts each distinct price once.
calculate_total_distinct(rows) == SumDecs({r.price : r \in rows})

\* Order.calculate_total: sum(product.price for product in self.products.all())
calculate_total(rows) == SumPrices(rows)

(***************************************************************************)
(* createProduct: CreateProduct.mutate.                                    *)
(***************************************************************************)
CreateProduct(p, in) ==
    /\ pc[p] = "idle"
    /\ Cardinality(products) < MaxProducts
    /\ LET stock == IF in.stock = None THEN 0 ELSE CHOOSE n \in in.stock : TRUE
           stored == Quantize(in.price)
           row == [id |-> productSeq, name |-> in.name, price |-> stored,
                   stock |-> stock]
       IN  IF InputNotPositive(in.price)
           THEN /\ resp' = Response(p, "createProduct", in, FALSE,
                                    "Price must be positive", None, None)
                /\ UNCHANGED <<products, productSeq>>
           ELSE IF stock < 0
           THEN /\ resp' = Response(p, "createProduct", in, FALSE,
                                    "Stock cannot be negative", None, None)
                /\ UNCHANGED <<products, productSeq>>
           ELSE IF DecOverflow(stored)
           THEN /\ resp' = Catch(p, "createProduct", in, "InvalidOperation")
                /\ UNCHANGED <<products, productSeq>>
           ELSE /\ products' = products \cup {row}
                /\ productSeq' = productSeq + 1
                /\ resp' = Response(p, "createProduct", in, TRUE,
                                    "Product created successfully", Some(row), None)
    /\ UNCHANGED <<customers, customerSeq, orders, orderSeq, pc, arg, bulk, jobVars>>

(***************************************************************************)
(* createOrder: CreateOrder.mutate.  Its statements run in autocommit      *)
(* mode: the insert of the order, the rows of the join table and the       *)
(* update of total_amount each commit on their own.  The handler reads     *)
(* input.customerId and input.productIds only.                             *)
(***************************************************************************)
\* Product.objects.filter(id__in=input.productIds)
ProductsIn(ids) == {pr \in products : pr.id \in SeqSet(ids)}

CreateOrder(p, in) ==
    /\ pc[p] = "idle"
    /\ orderSeq <= MaxOrders
    /\ LET found == ProductsIn(in.productIds)
           created == [id |-> orderSeq, customer |-> in.customerId,
                       products |-> {}, total_amount |-> DecZero,
                       order_date |-> now]
           associated == [created EXCEPT !.products = {pr.id : pr \in found}]
           total == calculate_total(found)
           saved == [associated EXCEPT !.total_amount = total]
       IN  IF ~ \E c \in customers : c.id = in.customerId
           THEN /\ resp' = Response(p, "createOrder", in, FALSE,
                                    "Customer not found", None, None)
                /\ UNCHANGED <<orders, orderSeq>>
           ELSE IF in.productIds = <<>>
           THEN /\ resp' = Response(p, "createOrder", in, FALSE,
                                    "At least one product must be selected", None, None)
                /\ UNCHANGED <<orders, orderSeq>>
           ELSE IF Cardinality(found) # Len(in.productIds)
           THEN /\ resp' = Response(p, "createOrder", in, FALSE,
                                    "One or more product IDs are invalid", None, None)
                /\ UNCHANGED <<orders, orderSeq>>
           ELSE IF DecOverflow(total)
           THEN \* order.save() raises; the order and its join rows are committed
                /\ orders' = orders \cup {associated}
                /\ orderSeq' = orderSeq + 1
                /\ resp' = Catch(p, "createOrder", in, "InvalidOperation")
           ELSE /\ orders' = orders \cup {saved}
                /\ orderSeq' = orderSeq + 1
                /\ resp' = Response(p, "createOrder", in, TRUE,
                                    "Order created successfully with total amount: $",
                                    Some(saved), Some(total))
    /\ UNCHANGED <<customers, customerSeq, products, productSeq, pc, arg, bulk, jobVars>>

(***************************************************************************)
(* The reminder job: crm/cron_jobs/send_order_reminders.py.  It sends one  *)
(* GraphQL query to the served schema; a schema is the set of the fields   *)
(* of its Query type, each with the arguments it accepts.                  *)
(***************************************************************************)
Field(name, args) == [name |-> name, args |-> args]

\* class Query of crm/schema.py: four fields, none taking an argument.
CrmQuery ==
    {Field("hello", {}), Field("customers", {}), Field("products", {}),
     Field("orders", {})}

\* class Query of graphql_crm/schema.py, the one graphene.Schema is built on.
ProjectQuery == {Field("hello", {})}

Schemas == {CrmQuery, ProjectQuery}

\* { orders(orderDate_Gte: "<one_week_ago>") { id customer { email } } }
ReminderQuery == [field |-> "orders", args |-> {"orderDate_Gte"}]

\* A query is executed only if its field exists and takes the arguments given.
Validates(schema, q) ==
    \E f \in schema : f.name = q.field /\ q.args \subseteq f.args

\* timedelta(days=7)
ReminderDays == 7

EmailOfCustomer(id) == (CHOOSE c \in customers : c.id = id).email

RECURSIVE LinesFor(_, _)
LinesFor(rows, ts) ==
    IF rows = {} THEN <<>>
    ELSE LET o == CHOOSE x \in rows : \A y \in rows : x.id <= y.id
         IN  <<[ts |-> ts, order_id |-> o.id, email |-> EmailOfCustomer(o.customer)]>>
             \o LinesFor(rows \ {o}, ts)

RunReminder(schema) ==
    /\ LET one_week_ago == now - ReminderDays
           result == {o \in orders : o.order_date >= one_week_ago}
       IN  IF Validates(schema, ReminderQuery)
           THEN /\ log' = log \o LinesFor(result, now)
                /\ lastRun' = [ran |-> TRUE, at |-> now, orderSeq |-> orderSeq,
                               printed |-> "Order reminders processed!"]
           ELSE \* client.execute raises; except Exception as e: print("Error:", e)
                /\ log' = log
                /\ lastRun' = [ran |-> TRUE, at |-> now, orderSeq |-> orderSeq,
                               printed |-> "Error:"]
    /\ resp' = NoResp
    /\ UNCHANGED <<storeVars, pc, arg, bulk, now>>

Tick ==
    /\ now < MaxDay
    /\ now' = now + 1
    /\ resp' = NoResp
    /\ UNCHANGED <<storeVars, pc, arg, bulk, log, lastRun>>

(***************************************************************************)
(* The inputs of the customer mutations.                                   *)
(***************************************************************************)
PhoneIntl == <<"+", "1", "2", "3", "4", "5", "6", "7", "8", "9", "0", "1">>
PhoneDashed == <<"1", "2", "3", "-", "4", "5", "6", "-", "7", "8", "9", "0">>
PhoneAbc == <<"a", "b", "c">>

Item(email, phone) == [name |-> "n", email |-> email, phone |-> phone]

\* Per email one accepted phone (none, or a number the pattern accepts) and
\* one the pattern refuses.
CustomerInputs ==
    {Item("a@x.io", <<>>), Item("a@x.io", PhoneAbc),
     Item("A@x.io", PhoneIntl), Item("A@x.io", PhoneAbc)}

\* The same two emails; the accepted phone is of the dashed form.
BulkItems ==
    {Item("a@x.io", <<>>), Item("A@x.io", PhoneDashed), Item("A@x.io", PhoneAbc)}

Init ==
    /\ customers = {} /\ customerSeq = 1
    /\ products = {} /\ productSeq = 1
    /\ orders = {} /\ orderSeq = 1
    /\ pc = [p \in Procs |-> "idle"]
    /\ arg = [p \in Procs |-> NoArg]
    /\ bulk = [p \in Procs |-> NoBulk]
    /\ resp = NoResp
    /\ now = 0 /\ log = <<>>
    /\ lastRun = [ran |-> FALSE]

NextCustomers ==
    \/ \E p \in Procs : \E in \in CustomerInputs : CreateCustomerCheck(p, in)
    \/ \E p \in Procs : CreateCustomerInsert(p)
    \/ \E p \in Procs : BulkBegin(p)
    \/ \E p \in Procs : \E item \in BulkItems : BulkCheck(p, item)
    \/ \E p \in Procs : BulkInsert(p)
    \/ \E p \in Procs : BulkExit(p)

SpecCustomers == Init /\ [][NextCustomers]_vars

(***************************************************************************)
(* The inputs of the product and order mutations.                          *)
(***************************************************************************)
Price(maxes, mills) == [maxes |-> maxes, mills |-> mills]

\* -5, 0, 0.001, 0.006, 0.01, 10.00, 15.50, 99999999.99, 100000000.00
Prices ==
    {Price(0, -5000), Price(0, 0), Price(0, 1), Price(0, 6), Price(0, 10),
     Price(0, 10000), Price(0, 15500), Price(1, 0), Price(1, 10)}

Stocks == {None, Some(-1), Some(0), Some(5)}

ProductInputs == [name : {"p"}, price : Prices, stock : Stocks]

NextProducts ==
    \E p \in Procs : \E in \in ProductInputs : CreateProduct(p, in)

SpecProducts == Init /\ [][NextProducts]_vars

\* One email, with and without an acceptable phone.
FewCustomerInputs == {Item("a@x.io", <<>>), Item("a@x.io", PhoneAbc)}

\* 10.00, 15.50, 99999999.99
FewPrices == {Price(0, 10000), Price(0, 15500), Price(1, 0)}

FewProductInputs == [name : {"p"}, price : FewPrices, stock : {None}]

\* The handler reads productIds through id__in and len alone, neither of
\* which sees the order of the list: lists in ascending order stand for all.
IdLists ==
    {ids \in UNION {[1..n -> 1..(MaxProducts + 1)] : n \in 0..MaxIds} :
        \A i \in 1..(Len(ids) - 1) : ids[i] <= ids[i + 1]}

OrderInputs == [customerId : 1..2, productIds : IdLists]

\* Orders over a store of one customer and a few products.
NextOrders ==
    \/ CreateCustomerCheck(1, Item("a@x.io", <<>>))
    \/ CreateCustomerInsert(1)
    \/ \E in \in FewProductInputs : CreateProduct(1, in)
    \/ \E in \in OrderInputs : CreateOrder(1, in)

SpecOrders == Init /\ [][NextOrders]_vars

\* Every mutation, each with the inputs that reach each of its responses.

\* 0, 99999999.99, 100000000.00
EdgePrices == {Price(0, 0), Price(1, 0), Price(1, 10)}

EdgeProductInputs == [name : {"p"}, price : EdgePrices, stock : {None, Some(-1)}]

EdgeOrderInputs ==
    [customerId : 1..2, productIds : {<<>>, <<1>>, <<1, 2>>, <<1, 3>>}]

Next ==
    \/ \E p \in Procs : \E in \in FewCustomerInputs : CreateCustomerCheck(p, in)
    \/ \E p \in Procs : CreateCustomerInsert(p)
    \/ \E p \in Procs : BulkBegin(p)
    \/ \E p \in Procs : \E item \in FewCustomerInputs : BulkCheck(p, item)
    \/ \E p \in Procs : BulkInsert(p)
    \/ \E p \in Procs : BulkExit(p)
    \/ \E p \in Procs : \E in \in EdgeProductInputs : CreateProduct(p, in)
    \/ \E p \in Procs : \E in \in EdgeOrderInputs : CreateOrder(p, in)

Spec == Init /\ [][Next]_vars

NextReminder ==
    \/ CreateCustomerCheck(1, Item("a@x.io", <<>>))
    \/ CreateCustomerInsert(1)
    \/ CreateProduct(1, [name |-> "p", price |-> Price(0, 10000), stock |-> None])
    \/ CreateOrder(1, [customerId |-> 1, productIds |-> <<1>>])
    \/ Tick
    \/ \E schema \in Schemas : RunReminder(schema)

SpecReminder == Init /\ [][NextReminder]_vars

(***************************************************************************)
(* Properties.                                                             *)
(***************************************************************************)
\* The step is the first step of createCustomer(in) by p.
CallsCreateCustomer(p, in) ==
    /\ pc[p] = "idle"
    /\ \/ pc'[p] = "cc_insert" /\ arg'[p] = in
       \/ /\ resp'.op = "createCustomer"
          /\ resp'.proc = p
          /\ resp'.request = in
          /\ pc'[p] = "idle"

\* C1: a createCustomer call whose email is the email of a persisted
\* customer returns success=false with "Email already exists" and no
\* customer, and leaves the Customer table as it was, whatever the phone.
C1_DuplicateEmailRejected ==
    [][\A p \in Procs : \A in \in CustomerInputs :
          (CallsCreateCustomer(p, in) /\ in.email \in EmailsOf(customers))
          => /\ resp' = Response(p, "createCustomer", in, FALSE,
                                 "Email already exists", None, None)
             /\ customers' = customers]_vars

\* A duplicate email was refused although the phone is one the pattern refuses.
C1_Witness ==
    /\ resp.op = "createCustomer"
    /\ resp.message = "Email already exists"
    /\ resp.request.phone = PhoneAbc
    /\ resp.request.email \in EmailsOf(customers)

\* C2: a createOrder call that fails leaves no order row and no join row
\* it created.
C2_FailedOrderLeavesNothing ==
    [][(resp'.op = "createOrder" /\ ~resp'.success) => orders' = orders]_vars

\* C3: every customer of the customers list bulkCreateCustomers returns
\* is persisted.
C3_ReturnedCustomersPersisted ==
    resp.op = "bulkCreateCustomers" => SeqSet(resp.customers) \subseteq customers

ErrorsAt(r, i) == {k \in 1..Len(r.errors) : r.errors[k].pos = i}

InsertFailedAt(r, i) ==
    \E k \in ErrorsAt(r, i) : r.errors[k].text = "IntegrityError"

\* C4: no two persisted customers have the same email.
C4_UniqueEmails ==
    \A c1 \in customers : \A c2 \in customers : c1.email = c2.email => c1 = c2

\* Two requests passed the uniqueness check with one email; the second
\* insert was refused by the index.
C4_Witness ==
    /\ resp.op = "createCustomer"
    /\ ~resp.success
    /\ resp.msgArg = Some("IntegrityError")
    /\ resp.request.email \in EmailsOf(customers)

\* C5: for an existing customer and a non-empty productIds list,
\* createOrder answers "One or more product IDs are invalid" exactly when
\* some id of the list names no product, and then creates no order row.
C5_InvalidReferenceIff ==
    [][(/\ resp'.op = "createOrder"
        /\ \E c \in customers : c.id = resp'.request.customerId
        /\ resp'.request.productIds # <<>>)
       => /\ (resp'.message = "One or more product IDs are invalid")
               <=> (\E id \in SeqSet(resp'.request.productIds) :
                       ~ \E pr \in products : pr.id = id)
          /\ (resp'.message = "One or more product IDs are invalid")
               => orders' = orders]_vars

OrderProducts(o) == {pr \in products : pr.id \in o.products}

\* C6: after a successful createOrder the persisted total_amount of the
\* new order is the sum of the prices of its products, the message carries
\* that total, and no step changes the total_amount of an existing order.
C6_TotalIsSumAndStays ==
    /\ [](resp.op = "createOrder" /\ resp.success
            => \E o \in orders :
                  /\ resp.entity = Some(o)
                  /\ o.total_amount = SumPrices(OrderProducts(o))
                  /\ resp.msgArg = Some(o.total_amount))
    /\ [][\A o \in orders : \E o2 \in orders' :
             o2.id = o.id /\ o2.total_amount = o.total_amount]_vars

\* An order of two products priced 10.00 and 15.50 was created: 25.50.
C6_Witness ==
    /\ resp.op = "createOrder"
    /\ resp.success
    /\ resp.msgArg = Some(Dec(0, 2550))
    /\ \E o \in orders : resp.entity = Some(o) /\ Cardinality(o.products) = 2

\* C7: bulkCreateCustomers adds, per item and in input order, either a
\* customer (an item that passes both checks against the store at its
\* turn, and is then persisted) or exactly one error naming its position;
\* customers plus errors is the batch length and success says whether a
\* customer was created.  An item whose own insert is refused counts as
\* a failed item.
C7_BulkPerItemOutcome ==
    resp.op = "bulkCreateCustomers" =>
        /\ Len(resp.customers) + Len(resp.errors) = Len(resp.request)
        /\ resp.success <=> Len(resp.customers) > 0
        /\ \A i \in 1..Len(resp.request) :
              IF resp.verdicts[i] = "ok" /\ ~InsertFailedAt(resp, i)
              THEN /\ ErrorsAt(resp, i) = {}
                   /\ \E c \in SeqSet(resp.customers) :
                         c.email = resp.request[i].email /\ c \in customers
              ELSE Cardinality(ErrorsAt(resp, i)) = 1

\* The orders that existed when the job last ran.
OrdersAtLastRun == {o \in orders : o.id < lastRun.orderSeq}

\* C8: a run of the reminder job writes one line (timestamp, order id,
\* customer email) for exactly the orders dated within the 7 days before
\* the run.
C8_RecentOrdersLogged ==
    lastRun.ran =>
        \A o \in OrdersAtLastRun :
            (o.order_date >= lastRun.at - ReminderDays)
            <=> (\E k \in 1..Len(log) :
                    log[k] = [ts |-> lastRun.at, order_id |-> o.id,
                              email |-> EmailOfCustomer(o.customer)])

\* C9: every persisted product has price > 0 and stock >= 0; a price <= 0
\* is refused with "Price must be positive", a negative stock with "Stock
\* cannot be negative", and an omitted stock is stored as 0.
C9_ProductInvariant ==
    /\ \A pr \in products : DecPositive(pr.price) /\ pr.stock >= 0
    /\ resp.op = "createProduct" =>
          /\ InputNotPositive(resp.request.price)
                => ~resp.success /\ resp.message = "Price must be positive"
          /\ (resp.success /\ resp.request.stock = None)
                => \A pr \in resp.entity : pr.stock = 0

Table(op) ==
    CASE op = "createCustomer" -> customers
      [] op = "createProduct" -> products
      [] op = "createOrder" -> orders

\* C10: every mutation returns a response, never an exception; a
\* single-entity mutation that fails returns success=false, a non-empty
\* message and no entity, and success=true comes only with a persisted
\* entity.
C10_FailuresBecomeResponses ==
    resp.op # "none" =>
        /\ ~resp.propagated
        /\ resp.op \in {"createCustomer", "createProduct", "createOrder"} =>
              IF resp.success
              THEN resp.entity # None /\ resp.entity \subseteq Table(resp.op)
              ELSE resp.message # "" /\ resp.entity = None

\* order.save() raised inside createOrder and the caller got a response.
C10_Witness ==
    /\ resp.op = "createOrder"
    /\ ~resp.success
    /\ resp.msgArg = Some("InvalidOperation")

====
